---- MODULE Spec2Model ----
(***************************************************************************)
(* DebugKit landing page: the snippet browser (CodeArchitecture) and the   *)
(* per-line Swift tokenizer (HighlightedCode, TOKENIZER_REGEX).            *)
(*                                                                         *)
(* Text is a sequence of one-character strings.  Offsets into a line are   *)
(* 0-based, as in the source; Char(s, i) reads the character at offset i.  *)
(*                                                                         *)
(* Two specifications share the variables:                                 *)
(*   Spec     the browser: select, copy, the reset timers, elapsing time;  *)
(*   TokSpec  the tokenizer: one call of HighlightedCode after another,    *)
(*            each on a line drawn from Lines, stepped loop turn by turn.  *)
(***************************************************************************)
EXTENDS Integers, Sequences, FiniteSets, TLC

VARIABLES
    \* ---- CodeArchitecture (the browser) ----
    activeFile,     \* useState<FileName>: the active snippet name
    copied,         \* useState(false): the copy-feedback flag
    codeSnippet,    \* const codeSnippet of the latest render (what the handlers close over)
    timers,         \* pending setTimeout callbacks: their due times (ms), in scheduling order
    now,            \* the clock, in ms
    clipboard,      \* the platform clipboard's text (NoText before any successful write)
    written,        \* the argument of the latest navigator.clipboard.writeText call
    lastCopyAt,     \* history: the time of the most recent copy (NoCopy before any)
    interacted,     \* history: some select or copy event has happened
    lastEvent,      \* history: the step taken last, [type, arg]
    \* ---- HighlightedCode (the tokenizer) ----
    code,           \* the prop: one line of text
    elements,       \* const elements: the fragments pushed so far
    lastIndex,      \* let lastIndex: end of the last match
    reLastIndex,    \* TOKENIZER_REGEX.lastIndex: the module-level regex's scan offset
    match,          \* let match: the latest exec result (NoMatch for null)
    pc,             \* the position of the call: idle, loop, rest, done
    prevCode        \* history: the line of the call before this one (NoLine before any)

browserVars == <<activeFile, copied, codeSnippet, timers, now, clipboard, written,
                 lastCopyAt, interacted, lastEvent>>
tokVars == <<code, elements, lastIndex, reLastIndex, match, pc, prevCode>>
vars == <<activeFile, copied, codeSnippet, timers, now, clipboard, written,
          lastCopyAt, interacted, lastEvent,
          code, elements, lastIndex, reLastIndex, match, pc, prevCode>>

----------------------------------------------------------------------------
(* Bounds of the model. *)

\* no copy is made after MaxNow ms; the clock then runs on only until the
\* pending timers have run
MaxNow == 3000
\* time elapses in slices of at most TickMs ms
TickMs == 500
\* at most MaxTimers reset timers pending at once
MaxTimers == 2
\* every line over Alphabet of at most MaxLen characters is tokenized
MaxLen == 4

\* LiveLines holds every line over Alphabet of at most MaxLiveLen characters
MaxLiveLen == 3

----------------------------------------------------------------------------
(* The static snippet table. *)

\* src/unnamed/part_000:5  SNIPPETS['App.swift'] (346 characters)
Text_App ==
    <<
       "i", "m", "p", "o", "r", "t", " ", "S", "w", "i", "f", "t", "U", "I", "\n",
       "i", "m", "p", "o", "r", "t", " ", "D", "e", "b", "u", "g", "K", "i", "t", "\n",
       "\n",
       "@", "m", "a", "i", "n", "\n",
       "s", "t", "r", "u", "c", "t", " ", "T", "a", "l", "k", "i", "e", "A", "p", "p", ":", " ", "A", "p", "p", " ", "{", "\n",
       " ", " ", " ", " ", "v", "a", "r", " ", "b", "o", "d", "y", ":", " ", "s", "o", "m", "e", " ", "S", "c", "e", "n", "e", " ", "{", "\n",
       " ", " ", " ", " ", " ", " ", " ", " ", "W", "i", "n", "d", "o", "w", "(", "\"", "T", "a", "l", "k", "i", "e", "\"", ",", " ", "i", "d", ":", " ", "\"", "m", "a", "i", "n", "\"", ")", " ", "{", "\n",
       " ", " ", " ", " ", " ", " ", " ", " ", " ", " ", " ", " ", "#", "i", "f", " ", "D", "E", "B", "U", "G", "\n",
       " ", " ", " ", " ", " ", " ", " ", " ", " ", " ", " ", " ", "D", "e", "b", "u", "g", "T", "o", "o", "l", "b", "a", "r", "O", "v", "e", "r", "l", "a", "y", " ", "{", "\n",
       " ", " ", " ", " ", " ", " ", " ", " ", " ", " ", " ", " ", " ", " ", " ", " ", "C", "o", "n", "t", "e", "n", "t", "V", "i", "e", "w", "(", ")", "\n",
       " ", " ", " ", " ", " ", " ", " ", " ", " ", " ", " ", " ", "}", "\n",
       " ", " ", " ", " ", " ", " ", " ", " ", " ", " ", " ", " ", "#", "e", "l", "s", "e", "\n",
       " ", " ", " ", " ", " ", " ", " ", " ", " ", " ", " ", " ", "C", "o", "n", "t", "e", "n", "t", "V", "i", "e", "w", "(", ")", "\n",
       " ", " ", " ", " ", " ", " ", " ", " ", " ", " ", " ", " ", "#", "e", "n", "d", "i", "f", "\n",
       " ", " ", " ", " ", " ", " ", " ", " ", "}", "\n",
       " ", " ", " ", " ", " ", " ", " ", " ", ".", "w", "i", "n", "d", "o", "w", "S", "t", "y", "l", "e", "(", ".", "h", "i", "d", "d", "e", "n", "T", "i", "t", "l", "e", "B", "a", "r", ")", "\n",
       " ", " ", " ", " ", "}", "\n",
       "}"
    >>

\* src/unnamed/part_000:23  SNIPPETS['Overlay.swift'] (651 characters)
Text_Overlay ==
    <<
       "i", "m", "p", "o", "r", "t", " ", "S", "w", "i", "f", "t", "U", "I", "\n",
       "i", "m", "p", "o", "r", "t", " ", "D", "e", "b", "u", "g", "K", "i", "t", "\n",
       "\n",
       "s", "t", "r", "u", "c", "t", " ", "D", "e", "b", "u", "g", "T", "o", "o", "l", "b", "a", "r", "O", "v", "e", "r", "l", "a", "y", "<", "C", "o", "n", "t", "e", "n", "t", ":", " ", "V", "i", "e", "w", ">", ":", " ", "V", "i", "e", "w", " ", "{", "\n",
       " ", " ", " ", " ", "@", "S", "t", "a", "t", "e", " ", "p", "r", "i", "v", "a", "t", "e", " ", "v", "a", "r", " ", "s", "h", "o", "w", "i", "n", "g", "C", "o", "n", "s", "o", "l", "e", " ", "=", " ", "f", "a", "l", "s", "e", "\n",
       " ", " ", " ", " ", "l", "e", "t", " ", "c", "o", "n", "t", "e", "n", "t", ":", " ", "(", ")", " ", "-", ">", " ", "C", "o", "n", "t", "e", "n", "t", "\n",
       "\n",
       " ", " ", " ", " ", "v", "a", "r", " ", "b", "o", "d", "y", ":", " ", "s", "o", "m", "e", " ", "V", "i", "e", "w", " ", "{", "\n",
       " ", " ", " ", " ", " ", " ", " ", " ", "Z", "S", "t", "a", "c", "k", " ", "{", "\n",
       " ", " ", " ", " ", " ", " ", " ", " ", " ", " ", " ", " ", "c", "o", "n", "t", "e", "n", "t", "(", ")", "\n",
       "\n",
       " ", " ", " ", " ", " ", " ", " ", " ", " ", " ", " ", " ", "D", "e", "b", "u", "g", "T", "o", "o", "l", "b", "a", "r", "(", "\n",
       " ", " ", " ", " ", " ", " ", " ", " ", " ", " ", " ", " ", " ", " ", " ", " ", "s", "e", "c", "t", "i", "o", "n", "s", ":", " ", "b", "u", "i", "l", "d", "S", "e", "c", "t", "i", "o", "n", "s", "(", ")", ",", "\n",
       " ", " ", " ", " ", " ", " ", " ", " ", " ", " ", " ", " ", " ", " ", " ", " ", "a", "c", "t", "i", "o", "n", "s", ":", " ", "[", "\n",
       " ", " ", " ", " ", " ", " ", " ", " ", " ", " ", " ", " ", " ", " ", " ", " ", " ", " ", " ", " ", "D", "e", "b", "u", "g", "A", "c", "t", "i", "o", "n", "(", "\"", "V", "i", "e", "w", " ", "C", "o", "n", "s", "o", "l", "e", "\"", ",", " ", "i", "c", "o", "n", ":", " ", "\"", "d", "o", "c", ".", "t", "e", "x", "t", ".", "m", "a", "g", "n", "i", "f", "y", "i", "n", "g", "g", "l", "a", "s", "s", "\"", ")", " ", "{", "\n",
       " ", " ", " ", " ", " ", " ", " ", " ", " ", " ", " ", " ", " ", " ", " ", " ", " ", " ", " ", " ", " ", " ", " ", " ", "s", "h", "o", "w", "i", "n", "g", "C", "o", "n", "s", "o", "l", "e", " ", "=", " ", "t", "r", "u", "e", "\n",
       " ", " ", " ", " ", " ", " ", " ", " ", " ", " ", " ", " ", " ", " ", " ", " ", " ", " ", " ", " ", "}", "\n",
       " ", " ", " ", " ", " ", " ", " ", " ", " ", " ", " ", " ", " ", " ", " ", " ", "]", ",", "\n",
       " ", " ", " ", " ", " ", " ", " ", " ", " ", " ", " ", " ", " ", " ", " ", " ", "o", "n", "C", "o", "p", "y", ":", " ", "{", " ", "b", "u", "i", "l", "d", "C", "o", "p", "y", "T", "e", "x", "t", "(", ")", " ", "}", "\n",
       " ", " ", " ", " ", " ", " ", " ", " ", " ", " ", " ", " ", ")", "\n",
       " ", " ", " ", " ", " ", " ", " ", " ", "}", "\n",
       " ", " ", " ", " ", " ", " ", " ", " ", ".", "s", "h", "e", "e", "t", "(", "i", "s", "P", "r", "e", "s", "e", "n", "t", "e", "d", ":", " ", "$", "s", "h", "o", "w", "i", "n", "g", "C", "o", "n", "s", "o", "l", "e", ")", " ", "{", "\n",
       " ", " ", " ", " ", " ", " ", " ", " ", " ", " ", " ", " ", "C", "o", "n", "s", "o", "l", "e", "V", "i", "e", "w", "(", ")", "\n",
       " ", " ", " ", " ", " ", " ", " ", " ", "}", "\n",
       " ", " ", " ", " ", "}", "\n",
       "}"
    >>

\* src/unnamed/part_000:49  SNIPPETS['Sections.swift'] (745 characters)
Text_Sections ==
    <<
       "p", "r", "i", "v", "a", "t", "e", " ", "f", "u", "n", "c", " ", "b", "u", "i", "l", "d", "S", "e", "c", "t", "i", "o", "n", "s", "(", ")", " ", "-", ">", " ", "[", "D", "e", "b", "u", "g", "S", "e", "c", "t", "i", "o", "n", "]", " ", "{", "\n",
       " ", " ", " ", " ", "[", "\n",
       " ", " ", " ", " ", " ", " ", " ", " ", "D", "e", "b", "u", "g", "S", "e", "c", "t", "i", "o", "n", "(", "\"", "B", "U", "I", "L", "D", "\"", ",", " ", "[", "\n",
       " ", " ", " ", " ", " ", " ", " ", " ", " ", " ", " ", " ", "(", "\"", "V", "e", "r", "s", "i", "o", "n", "\"", ",", " ", "B", "u", "n", "d", "l", "e", ".", "m", "a", "i", "n", ".", "a", "p", "p", "V", "e", "r", "s", "i", "o", "n", ")", ",", "\n",
       " ", " ", " ", " ", " ", " ", " ", " ", " ", " ", " ", " ", "(", "\"", "B", "u", "i", "l", "d", "\"", ",", " ", "B", "u", "n", "d", "l", "e", ".", "m", "a", "i", "n", ".", "b", "u", "i", "l", "d", "N", "u", "m", "b", "e", "r", ")", ",", "\n",
       " ", " ", " ", " ", " ", " ", " ", " ", " ", " ", " ", " ", "(", "\"", "m", "a", "c", "O", "S", "\"", ",", " ", "P", "r", "o", "c", "e", "s", "s", "I", "n", "f", "o", ".", "p", "r", "o", "c", "e", "s", "s", "I", "n", "f", "o", ".", "o", "s", "V", "e", "r", "s", "i", "o", "n", ")", "\n",
       " ", " ", " ", " ", " ", " ", " ", " ", "]", ")", ",", "\n",
       " ", " ", " ", " ", " ", " ", " ", " ", "D", "e", "b", "u", "g", "S", "e", "c", "t", "i", "o", "n", "(", "\"", "S", "Y", "N", "C", "\"", ",", " ", "[", "\n",
       " ", " ", " ", " ", " ", " ", " ", " ", " ", " ", " ", " ", "(", "\"", "S", "t", "a", "t", "u", "s", "\"", ",", " ", "s", "y", "n", "c", "M", "a", "n", "a", "g", "e", "r", ".", "s", "t", "a", "t", "u", "s", ".", "r", "a", "w", "V", "a", "l", "u", "e", ")", ",", "\n",
       " ", " ", " ", " ", " ", " ", " ", " ", " ", " ", " ", " ", "(", "\"", "L", "a", "s", "t", "\"", ",", " ", "s", "y", "n", "c", "M", "a", "n", "a", "g", "e", "r", ".", "l", "a", "s", "t", "S", "y", "n", "c", "?", ".", "r", "e", "l", "a", "t", "i", "v", "e", " ", "?", "?", " ", "\"", "N", "e", "v", "e", "r", "\"", ")", ",", "\n",
       " ", " ", " ", " ", " ", " ", " ", " ", " ", " ", " ", " ", "(", "\"", "P", "e", "n", "d", "i", "n", "g", "\"", ",", " ", "\"", "\\", "(", "s", "y", "n", "c", "M", "a", "n", "a", "g", "e", "r", ".", "p", "e", "n", "d", "i", "n", "g", "C", "o", "u", "n", "t", ")", "\"", ")", "\n",
       " ", " ", " ", " ", " ", " ", " ", " ", "]", ")", "\n",
       " ", " ", " ", " ", "]", "\n",
       "}", "\n",
       "\n",
       "p", "r", "i", "v", "a", "t", "e", " ", "f", "u", "n", "c", " ", "b", "u", "i", "l", "d", "C", "o", "p", "y", "T", "e", "x", "t", "(", ")", " ", "-", ">", " ", "S", "t", "r", "i", "n", "g", " ", "{", "\n",
       " ", " ", " ", " ", "\"", "\"", "\"", "\n",
       " ", " ", " ", " ", "T", "a", "l", "k", "i", "e", " ", "\\", "(", "B", "u", "n", "d", "l", "e", ".", "m", "a", "i", "n", ".", "a", "p", "p", "V", "e", "r", "s", "i", "o", "n", ")", " ", "(", "\\", "(", "B", "u", "n", "d", "l", "e", ".", "m", "a", "i", "n", ".", "b", "u", "i", "l", "d", "N", "u", "m", "b", "e", "r", ")", ")", "\n",
       " ", " ", " ", " ", "m", "a", "c", "O", "S", " ", "\\", "(", "P", "r", "o", "c", "e", "s", "s", "I", "n", "f", "o", ".", "p", "r", "o", "c", "e", "s", "s", "I", "n", "f", "o", ".", "o", "s", "V", "e", "r", "s", "i", "o", "n", ")", "\n",
       "\n",
       " ", " ", " ", " ", "S", "y", "n", "c", ":", " ", "\\", "(", "s", "y", "n", "c", "M", "a", "n", "a", "g", "e", "r", ".", "s", "t", "a", "t", "u", "s", ".", "r", "a", "w", "V", "a", "l", "u", "e", ")", "\n",
       " ", " ", " ", " ", "L", "a", "s", "t", ":", " ", "\\", "(", "s", "y", "n", "c", "M", "a", "n", "a", "g", "e", "r", ".", "l", "a", "s", "t", "S", "y", "n", "c", "?", ".", "r", "e", "l", "a", "t", "i", "v", "e", " ", "?", "?", " ", "\"", "N", "e", "v", "e", "r", "\"", ")", "\n",
       " ", " ", " ", " ", "\"", "\"", "\"", "\n",
       "}"
    >>

\* src/unnamed/part_000:73  SNIPPETS['Actions.swift'] (1050 characters)
Text_Actions ==
    <<
       "/", "/", " ", "V", "i", "e", "w", "-", "s", "p", "e", "c", "i", "f", "i", "c", " ", "d", "e", "b", "u", "g", " ", "c", "o", "n", "t", "e", "n", "t", "\n",
       "s", "t", "r", "u", "c", "t", " ", "L", "i", "s", "t", "V", "i", "e", "w", "D", "e", "b", "u", "g", "C", "o", "n", "t", "e", "n", "t", ":", " ", "V", "i", "e", "w", " ", "{", "\n",
       " ", " ", " ", " ", "@", "O", "b", "s", "e", "r", "v", "e", "d", "O", "b", "j", "e", "c", "t", " ", "v", "a", "r", " ", "s", "y", "n", "c", "M", "a", "n", "a", "g", "e", "r", " ", "=", " ", "S", "y", "n", "c", "M", "a", "n", "a", "g", "e", "r", ".", "s", "h", "a", "r", "e", "d", "\n",
       "\n",
       " ", " ", " ", " ", "v", "a", "r", " ", "b", "o", "d", "y", ":", " ", "s", "o", "m", "e", " ", "V", "i", "e", "w", " ", "{", "\n",
       " ", " ", " ", " ", " ", " ", " ", " ", "V", "S", "t", "a", "c", "k", "(", "s", "p", "a", "c", "i", "n", "g", ":", " ", "1", "0", ")", " ", "{", "\n",
       " ", " ", " ", " ", " ", " ", " ", " ", " ", " ", " ", " ", "D", "e", "b", "u", "g", "S", "e", "c", "t", "i", "o", "n", "(", "t", "i", "t", "l", "e", ":", " ", "\"", "S", "Y", "N", "C", "\"", ")", " ", "{", "\n",
       " ", " ", " ", " ", " ", " ", " ", " ", " ", " ", " ", " ", " ", " ", " ", " ", "D", "e", "b", "u", "g", "A", "c", "t", "i", "o", "n", "B", "u", "t", "t", "o", "n", "(", "i", "c", "o", "n", ":", " ", "\"", "a", "r", "r", "o", "w", ".", "t", "r", "i", "a", "n", "g", "l", "e", ".", "2", ".", "c", "i", "r", "c", "l", "e", "p", "a", "t", "h", "\"", ",", " ", "l", "a", "b", "e", "l", ":", " ", "\"", "F", "o", "r", "c", "e", " ", "S", "y", "n", "c", "\"", ")", " ", "{", "\n",
       " ", " ", " ", " ", " ", " ", " ", " ", " ", " ", " ", " ", " ", " ", " ", " ", " ", " ", " ", " ", "s", "y", "n", "c", "M", "a", "n", "a", "g", "e", "r", ".", "s", "y", "n", "c", "N", "o", "w", "(", ")", "\n",
       " ", " ", " ", " ", " ", " ", " ", " ", " ", " ", " ", " ", " ", " ", " ", " ", "}", "\n",
       " ", " ", " ", " ", " ", " ", " ", " ", " ", " ", " ", " ", " ", " ", " ", " ", "D", "e", "b", "u", "g", "A", "c", "t", "i", "o", "n", "B", "u", "t", "t", "o", "n", "(", "i", "c", "o", "n", ":", " ", "\"", "a", "r", "r", "o", "w", ".", "c", "l", "o", "c", "k", "w", "i", "s", "e", "\"", ",", " ", "l", "a", "b", "e", "l", ":", " ", "\"", "F", "u", "l", "l", " ", "S", "y", "n", "c", "\"", ")", " ", "{", "\n",
       " ", " ", " ", " ", " ", " ", " ", " ", " ", " ", " ", " ", " ", " ", " ", " ", " ", " ", " ", " ", "s", "y", "n", "c", "M", "a", "n", "a", "g", "e", "r", ".", "f", "o", "r", "c", "e", "F", "u", "l", "l", "S", "y", "n", "c", "(", ")", "\n",
       " ", " ", " ", " ", " ", " ", " ", " ", " ", " ", " ", " ", " ", " ", " ", " ", "}", "\n",
       " ", " ", " ", " ", " ", " ", " ", " ", " ", " ", " ", " ", "}", "\n",
       "\n",
       " ", " ", " ", " ", " ", " ", " ", " ", " ", " ", " ", " ", "D", "e", "b", "u", "g", "S", "e", "c", "t", "i", "o", "n", "(", "t", "i", "t", "l", "e", ":", " ", "\"", "R", "E", "S", "E", "T", "\"", ")", " ", "{", "\n",
       " ", " ", " ", " ", " ", " ", " ", " ", " ", " ", " ", " ", " ", " ", " ", " ", "D", "e", "b", "u", "g", "A", "c", "t", "i", "o", "n", "B", "u", "t", "t", "o", "n", "(", "i", "c", "o", "n", ":", " ", "\"", "t", "r", "a", "s", "h", "\"", ",", " ", "l", "a", "b", "e", "l", ":", " ", "\"", "C", "l", "e", "a", "r", " ", "C", "a", "c", "h", "e", "\"", ",", " ", "d", "e", "s", "t", "r", "u", "c", "t", "i", "v", "e", ":", " ", "t", "r", "u", "e", ")", " ", "{", "\n",
       " ", " ", " ", " ", " ", " ", " ", " ", " ", " ", " ", " ", " ", " ", " ", " ", " ", " ", " ", " ", "C", "a", "c", "h", "e", "M", "a", "n", "a", "g", "e", "r", ".", "s", "h", "a", "r", "e", "d", ".", "c", "l", "e", "a", "r", "(", ")", "\n",
       " ", " ", " ", " ", " ", " ", " ", " ", " ", " ", " ", " ", " ", " ", " ", " ", "}", "\n",
       " ", " ", " ", " ", " ", " ", " ", " ", " ", " ", " ", " ", " ", " ", " ", " ", "D", "e", "b", "u", "g", "A", "c", "t", "i", "o", "n", "B", "u", "t", "t", "o", "n", "(", "i", "c", "o", "n", ":", " ", "\"", "a", "r", "r", "o", "w", ".", "c", "o", "u", "n", "t", "e", "r", "c", "l", "o", "c", "k", "w", "i", "s", "e", "\"", ",", " ", "l", "a", "b", "e", "l", ":", " ", "\"", "U", "s", "e", "r", "D", "e", "f", "a", "u", "l", "t", "s", "\"", ",", " ", "d", "e", "s", "t", "r", "u", "c", "t", "i", "v", "e", ":", " ", "t", "r", "u", "e", ")", " ", "{", "\n",
       " ", " ", " ", " ", " ", " ", " ", " ", " ", " ", " ", " ", " ", " ", " ", " ", " ", " ", " ", " ", "U", "s", "e", "r", "D", "e", "f", "a", "u", "l", "t", "s", ".", "s", "t", "a", "n", "d", "a", "r", "d", ".", "r", "e", "m", "o", "v", "e", "P", "e", "r", "s", "i", "s", "t", "e", "n", "t", "D", "o", "m", "a", "i", "n", "(", "\n",
       " ", " ", " ", " ", " ", " ", " ", " ", " ", " ", " ", " ", " ", " ", " ", " ", " ", " ", " ", " ", " ", " ", " ", " ", "f", "o", "r", "N", "a", "m", "e", ":", " ", "B", "u", "n", "d", "l", "e", ".", "m", "a", "i", "n", ".", "b", "u", "n", "d", "l", "e", "I", "d", "e", "n", "t", "i", "f", "i", "e", "r", "!", "\n",
       " ", " ", " ", " ", " ", " ", " ", " ", " ", " ", " ", " ", " ", " ", " ", " ", " ", " ", " ", " ", ")", "\n",
       " ", " ", " ", " ", " ", " ", " ", " ", " ", " ", " ", " ", " ", " ", " ", " ", "}", "\n",
       " ", " ", " ", " ", " ", " ", " ", " ", " ", " ", " ", " ", "}", "\n",
       " ", " ", " ", " ", " ", " ", " ", " ", "}", "\n",
       " ", " ", " ", " ", "}", "\n",
       "}"
    >>

FileNames == {"App.swift", "Overlay.swift", "Sections.swift", "Actions.swift"}

SNIPPETS ==
    [name \in FileNames |->
        CASE name = "App.swift"      -> Text_App
          [] name = "Overlay.swift"  -> Text_Overlay
          [] name = "Sections.swift" -> Text_Sections
          [] name = "Actions.swift"  -> Text_Actions]

----------------------------------------------------------------------------
(* The browser: CodeArchitecture. *)

NoText == <<"<", "n", "o", "n", "e", ">">>
NoCopy == 0 - 1
DefaultFile == "App.swift"

\* variants of the delay: a second less, a second more
ResetDelayShort == 2000 - 1000
ResetDelayLong == 2000 + 1000
\* setTimeout(..., 2000)
ResetDelay == 2000

Min(a, b) == IF a <= b THEN a ELSE b

\* variant: the handlers keep the first render's snippet (a stale closure)
RenderStale(file) == SNIPPETS[DefaultFile]
\* a render's  const codeSnippet = SNIPPETS[activeFile]
Render(file) == SNIPPETS[file]

\* navigator.clipboard.writeText(text): the returned promise is not awaited and a
\* rejection is not handled; a rejected write leaves the clipboard as it was.
WriteText(text, outcome, old) == IF outcome = "ok" THEN text ELSE old

WriteOutcomes == {"ok", "rejected"}

\* variant: selecting also clears the copy feedback and its timers
SelectFileResetsFeedback(name) ==
    /\ activeFile' = name
    /\ codeSnippet' = Render(name)
    /\ copied' = FALSE
    /\ timers' = <<>>
    /\ interacted' = TRUE
    /\ lastEvent' = [type |-> "select", arg |-> name]
    /\ UNCHANGED <<now, clipboard, written, lastCopyAt>>
    /\ UNCHANGED tokVars
\* variant: selecting the active name again falls back to the default
SelectFileToggle(name) ==
    /\ activeFile' = IF activeFile = name THEN DefaultFile ELSE name
    /\ codeSnippet' = Render(activeFile')
    /\ interacted' = TRUE
    /\ lastEvent' = [type |-> "select", arg |-> name]
    /\ UNCHANGED <<copied, timers, now, clipboard, written, lastCopyAt>>
    /\ UNCHANGED tokVars
\* onClick={() => setActiveFile(name)}, and the render that follows
SelectFile(name) ==
    /\ activeFile' = name
    /\ codeSnippet' = Render(name)
    /\ interacted' = TRUE
    /\ lastEvent' = [type |-> "select", arg |-> name]
    /\ UNCHANGED <<copied, timers, now, clipboard, written, lastCopyAt>>
    /\ UNCHANGED tokVars

\* variant: the write is awaited, so a rejected write ends the handler early
CopyToClipboardAwaited(outcome) ==
    /\ Len(timers) < MaxTimers
    /\ now <= MaxNow
    /\ written' = codeSnippet
    /\ clipboard' = WriteText(codeSnippet, outcome, clipboard)
    /\ copied' = IF outcome = "ok" THEN TRUE ELSE copied
    /\ timers' = IF outcome = "ok" THEN Append(timers, now + ResetDelay) ELSE timers
    /\ codeSnippet' = Render(activeFile)
    /\ lastCopyAt' = IF outcome = "ok" THEN now ELSE lastCopyAt
    /\ interacted' = TRUE
    /\ lastEvent' = [type |-> "copy", arg |-> outcome]
    /\ UNCHANGED <<activeFile, now>>
    /\ UNCHANGED tokVars
\* copyToClipboard: writeText(codeSnippet); setCopied(true); setTimeout(reset, 2000)
CopyToClipboard(outcome) ==
    /\ Len(timers) < MaxTimers
    /\ now <= MaxNow
    /\ written' = codeSnippet
    /\ clipboard' = WriteText(codeSnippet, outcome, clipboard)
    /\ copied' = TRUE
    /\ timers' = Append(timers, now + ResetDelay)
    /\ codeSnippet' = Render(activeFile)
    /\ lastCopyAt' = now
    /\ interacted' = TRUE
    /\ lastEvent' = [type |-> "copy", arg |-> outcome]
    /\ UNCHANGED <<activeFile, now>>
    /\ UNCHANGED tokVars

\* variant: the callback also goes back to the default snippet
TimerFireResetsSelection ==
    /\ timers # <<>>
    /\ Head(timers) <= now
    /\ copied' = FALSE
    /\ timers' = Tail(timers)
    /\ activeFile' = DefaultFile
    /\ codeSnippet' = Render(DefaultFile)
    /\ lastEvent' = [type |-> "timer", arg |-> ""]
    /\ UNCHANGED <<now, clipboard, written, lastCopyAt, interacted>>
    /\ UNCHANGED tokVars
\* variant: the callback toggles the flag, () => setCopied(c => !c)
TimerFireToggle ==
    /\ timers # <<>>
    /\ Head(timers) <= now
    /\ copied' = ~copied
    /\ timers' = Tail(timers)
    /\ codeSnippet' = Render(activeFile)
    /\ lastEvent' = [type |-> "timer", arg |-> ""]
    /\ UNCHANGED <<activeFile, now, clipboard, written, lastCopyAt, interacted>>
    /\ UNCHANGED tokVars
\* the timer callback  () => setCopied(false)  of the earliest pending timer, run
\* when it is due
TimerFire ==
    /\ timers # <<>>
    /\ Head(timers) <= now
    /\ copied' = FALSE
    /\ timers' = Tail(timers)
    /\ codeSnippet' = Render(activeFile)
    /\ lastEvent' = [type |-> "timer", arg |-> ""]
    /\ UNCHANGED <<activeFile, now, clipboard, written, lastCopyAt, interacted>>
    /\ UNCHANGED tokVars

\* time elapses, up to the next due time: a due timer runs before time goes on;
\* past MaxNow it elapses only towards a pending timer
Tick ==
    /\ (timers = <<>>) => now < MaxNow
    /\ (timers # <<>>) => Head(timers) > now
    /\ now' = IF timers = <<>> THEN now + TickMs ELSE Min(now + TickMs, Head(timers))
    /\ lastEvent' = [type |-> "tick", arg |-> ""]
    /\ UNCHANGED <<activeFile, copied, codeSnippet, timers, clipboard, written,
                   lastCopyAt, interacted>>
    /\ UNCHANGED tokVars

----------------------------------------------------------------------------
(* Character classes of the regex (no u flag: ASCII \w and \b). *)

Lower == {"a", "b", "c", "d", "e", "f", "g", "h", "i", "j", "k", "l", "m",
          "n", "o", "p", "q", "r", "s", "t", "u", "v", "w", "x", "y", "z"}
Upper == {"A", "B", "C", "D", "E", "F", "G", "H", "I", "J", "K", "L", "M",
          "N", "O", "P", "Q", "R", "S", "T", "U", "V", "W", "X", "Y", "Z"}
Digit == {"0", "1", "2", "3", "4", "5", "6", "7", "8", "9"}

\* \w
IsWordChar(c) == c \in Lower \cup Upper \cup Digit \cup {"_"}
\* [A-Z]
IsUpper(c) == c \in Upper
\* what . does not match: the line terminators (U+2028 and U+2029 are not
\* written here; "\n" and "\r" stand for the class)
IsLineTerminator(c) == c \in {"\n", "\r"}

Char(s, i) == s[i + 1]
\* s.slice(a, b)
Slice(s, a, b) == SubSeq(s, a + 1, b)

\* the text t occurs in s at offset p
StartsWith(s, p, t) ==
    /\ p + Len(t) <= Len(s)
    /\ \A k \in 1..Len(t) : s[p + k] = t[k]

\* \b at offset p
WordBoundary(s, p) ==
    LET before == p > 0 /\ IsWordChar(Char(s, p - 1))
        after == p < Len(s) /\ IsWordChar(Char(s, p))
    IN  before # after

\* the end of the greedy \w* from offset p
RECURSIVE WordEnd(_, _)
WordEnd(s, p) ==
    IF p < Len(s) /\ IsWordChar(Char(s, p)) THEN WordEnd(s, p + 1) ELSE p

\* the end of the greedy .* from offset p
RECURSIVE DotStarEnd(_, _)
DotStarEnd(s, p) ==
    IF p < Len(s) /\ ~IsLineTerminator(Char(s, p)) THEN DotStarEnd(s, p + 1) ELSE p

----------------------------------------------------------------------------
(* TOKENIZER_REGEX, one operator per alternative: the end offset of the    *)
(* alternative's match at offset p, or Fail.                               *)

Fail == -1

Quote == "\""
Backslash == "\\"
TripleQuote == <<Quote, Quote, Quote>>

\* variant: a lazy (\/\/.*?) stops right after the slashes
CommentEndLazy(s, p) ==
    IF StartsWith(s, p, <<"/", "/">>) THEN p + 2 ELSE Fail
\* (\/\/.*)
CommentEnd(s, p) ==
    IF StartsWith(s, p, <<"/", "/">>) THEN DotStarEnd(s, p + 2) ELSE Fail

\* the lazy [\s\S]*? then """ : the first """ at or after offset q
RECURSIVE LazyTripleClose(_, _)
LazyTripleClose(s, q) ==
    IF q + 3 > Len(s) THEN Fail
    ELSE IF StartsWith(s, q, TripleQuote) THEN q + 3
    ELSE LazyTripleClose(s, q + 1)

\* variant: an unclosed literal runs to the end of the text, """[\s\S]*?(?:"""|$)
TripleStringEndOpen(s, p) ==
    IF StartsWith(s, p, TripleQuote)
    THEN IF LazyTripleClose(s, p + 3) # Fail THEN LazyTripleClose(s, p + 3) ELSE Len(s)
    ELSE Fail
\* """[\s\S]*?"""
TripleStringEnd(s, p) ==
    IF StartsWith(s, p, TripleQuote) THEN LazyTripleClose(s, p + 3) ELSE Fail

\* (?:[^"\\]|\\.)*" from offset q: each turn of the star takes one character that
\* is neither a quote nor a backslash, or a backslash and one character . matches;
\* no turn has a second way to match, so giving turns back finds nothing new
\* variant: [^"]*" , a body without backslash escapes
RECURSIVE StringBodyEndNoEscape(_, _)
StringBodyEndNoEscape(s, q) ==
    IF q >= Len(s) THEN Fail
    ELSE IF Char(s, q) = Quote THEN q + 1
    ELSE StringBodyEndNoEscape(s, q + 1)
RECURSIVE StringBodyEnd(_, _)
StringBodyEnd(s, q) ==
    IF q >= Len(s) THEN Fail
    ELSE IF Char(s, q) = Quote THEN q + 1
    ELSE IF Char(s, q) = Backslash
         THEN IF q + 1 < Len(s) /\ ~IsLineTerminator(Char(s, q + 1))
              THEN StringBodyEnd(s, q + 2)
              ELSE Fail
    ELSE StringBodyEnd(s, q + 1)

\* "(?:[^"\\]|\\.)*"
PlainStringEnd(s, p) ==
    IF p < Len(s) /\ Char(s, p) = Quote THEN StringBodyEnd(s, p + 1) ELSE Fail

\* ("""[\s\S]*?"""|"(?:[^"\\]|\\.)*")
StringEnd(s, p) ==
    IF TripleStringEnd(s, p) # Fail THEN TripleStringEnd(s, p) ELSE PlainStringEnd(s, p)

\* variant: (@[a-z]\w*), an annotation has to begin with a lowercase letter
DecoratorEndLowercaseOnly(s, p) ==
    IF p + 1 < Len(s) /\ Char(s, p) = "@" /\ Char(s, p + 1) \in Lower
    THEN WordEnd(s, p + 1)
    ELSE Fail
\* (@\w+)
DecoratorEnd(s, p) ==
    IF p + 1 < Len(s) /\ Char(s, p) = "@" /\ IsWordChar(Char(s, p + 1))
    THEN WordEnd(s, p + 1)
    ELSE Fail

Keywords ==
    << <<"i", "m", "p", "o", "r", "t">>,
       <<"s", "t", "r", "u", "c", "t">>,
       <<"v", "a", "r">>,
       <<"l", "e", "t">>,
       <<"c", "l", "a", "s", "s">>,
       <<"f", "u", "n", "c">>,
       <<"r", "e", "t", "u", "r", "n">>,
       <<"s", "o", "m", "e">>,
       <<"e", "x", "t", "e", "n", "s", "i", "o", "n">>,
       <<"i", "f">>,
       <<"e", "l", "s", "e">>,
       <<"s", "w", "i", "t", "c", "h">>,
       <<"c", "a", "s", "e">>,
       <<"d", "e", "f", "a", "u", "l", "t">>,
       <<"p", "u", "b", "l", "i", "c">>,
       <<"p", "r", "i", "v", "a", "t", "e">>,
       <<"i", "n", "i", "t">>,
       <<"s", "t", "a", "t", "i", "c">> >>

\* variant: the closing \b is missing, a reserved word matches as a prefix
RECURSIVE KeywordFromNoBoundary(_, _, _)
KeywordFromNoBoundary(s, p, k) ==
    IF k > Len(Keywords) THEN Fail
    ELSE IF StartsWith(s, p, Keywords[k]) THEN p + Len(Keywords[k])
    ELSE KeywordFromNoBoundary(s, p, k + 1)
\* (?:import|struct|...)\b : the alternatives in order from the k-th on
RECURSIVE KeywordFrom(_, _, _)
KeywordFrom(s, p, k) ==
    IF k > Len(Keywords) THEN Fail
    ELSE IF StartsWith(s, p, Keywords[k]) /\ WordBoundary(s, p + Len(Keywords[k]))
         THEN p + Len(Keywords[k])
    ELSE KeywordFrom(s, p, k + 1)

\* (\b(?:import|...|static)\b)
KeywordEnd(s, p) ==
    IF WordBoundary(s, p) THEN KeywordFrom(s, p, 1) ELSE Fail

\* variant: the capitalized word is looked at but not taken, (\b(?=[A-Z]\w+\b))
TypeEndLookahead(s, p) ==
    IF /\ WordBoundary(s, p)
       /\ p + 1 < Len(s)
       /\ IsUpper(Char(s, p))
       /\ IsWordChar(Char(s, p + 1))
       /\ WordBoundary(s, WordEnd(s, p + 1))
    THEN p
    ELSE Fail
\* (\b[A-Z]\w+\b): \w+ takes the whole run of word characters, where \b holds
TypeEnd(s, p) ==
    IF /\ WordBoundary(s, p)
       /\ p + 1 < Len(s)
       /\ IsUpper(Char(s, p))
       /\ IsWordChar(Char(s, p + 1))
       /\ WordBoundary(s, WordEnd(s, p + 1))
    THEN WordEnd(s, p + 1)
    ELSE Fail

\* variant: the colon is looked at but not taken, (\b\w+(?=:))
ArgEndNoColon(s, p) ==
    IF /\ WordBoundary(s, p)
       /\ p < Len(s)
       /\ IsWordChar(Char(s, p))
       /\ WordEnd(s, p) < Len(s)
       /\ Char(s, WordEnd(s, p)) = ":"
    THEN WordEnd(s, p)
    ELSE Fail
\* (\b\w+:): \w+ takes the whole run of word characters; a shorter run is
\* followed by a word character, never by the colon
ArgEnd(s, p) ==
    IF /\ WordBoundary(s, p)
       /\ p < Len(s)
       /\ IsWordChar(Char(s, p))
       /\ WordEnd(s, p) < Len(s)
       /\ Char(s, WordEnd(s, p)) = ":"
    THEN WordEnd(s, p) + 1
    ELSE Fail

\* an unset capture group
Undefined == <<"undefined">>

NoMatch == [index |-> -1, end |-> -1, groups |-> <<>>]

\* variant: the alternatives are non-capturing groups, no capture group is set
FoundUncaptured(s, p, e, g) ==
    [index |-> p, end |-> e,
     groups |-> [k \in 1..6 |-> Undefined]]
\* the match array of group g matching s[p, e): groups[k] is capture group k
Found(s, p, e, g) ==
    [index |-> p, end |-> e,
     groups |-> [k \in 1..6 |-> IF k = g THEN Slice(s, p, e) ELSE Undefined]]

\* variant: longest match, the alternative that matches the most text wins
MatchAtLongest(s, p) ==
    LET ends == <<CommentEnd(s, p), StringEnd(s, p), DecoratorEnd(s, p),
                  KeywordEnd(s, p), TypeEnd(s, p), ArgEnd(s, p)>>
        best == CHOOSE i \in 1..6 :
                    /\ \A j \in 1..6 : ends[j] <= ends[i]
                    /\ \A j \in 1..(i - 1) : ends[j] < ends[i]
    IN  IF ends[best] = Fail THEN NoMatch ELSE Found(s, p, ends[best], best)
\* the regex tried at offset p: the first alternative that matches there
MatchAt(s, p) ==
    IF CommentEnd(s, p) # Fail THEN Found(s, p, CommentEnd(s, p), 1)
    ELSE IF StringEnd(s, p) # Fail THEN Found(s, p, StringEnd(s, p), 2)
    ELSE IF DecoratorEnd(s, p) # Fail THEN Found(s, p, DecoratorEnd(s, p), 3)
    ELSE IF KeywordEnd(s, p) # Fail THEN Found(s, p, KeywordEnd(s, p), 4)
    ELSE IF TypeEnd(s, p) # Fail THEN Found(s, p, TypeEnd(s, p), 5)
    ELSE IF ArgEnd(s, p) # Fail THEN Found(s, p, ArgEnd(s, p), 6)
    ELSE NoMatch

\* TOKENIZER_REGEX.exec(s) with lastIndex = from: the match at the least offset
\* at or after from
RECURSIVE Exec(_, _)
Exec(s, from) ==
    IF from > Len(s) THEN NoMatch
    ELSE IF MatchAt(s, from) # NoMatch THEN MatchAt(s, from)
    ELSE Exec(s, from + 1)

\* match[0]
FullMatch(s, m) == Slice(s, m.index, m.end)

----------------------------------------------------------------------------
(* HighlightedCode. *)

\* a JavaScript string's truthiness, for a capture group
Truthy(g) == g # Undefined /\ g # <<>>

Plain(t) == [cat |-> "plain", text |-> t]

\* variant: the guard off by one, a single skipped character is not pushed
PlainBeforeOffByOne(s, last, index) ==
    IF index > last + 1 THEN <<Plain(Slice(s, last, index))>> ELSE <<>>
\* if (index > lastIndex) elements.push(code.slice(lastIndex, index))
PlainBefore(s, last, index) ==
    IF index > last THEN <<Plain(Slice(s, last, index))>> ELSE <<>>

\* the if / else-if chain over [fullMatch, comment, string, decorator, keyword, type, arg]
Classify(s, m) ==
    IF Truthy(m.groups[1]) THEN [cat |-> "comment", text |-> m.groups[1]]
    ELSE IF Truthy(m.groups[2]) THEN [cat |-> "string", text |-> m.groups[2]]
    ELSE IF Truthy(m.groups[3]) THEN [cat |-> "decorator", text |-> m.groups[3]]
    ELSE IF Truthy(m.groups[4]) THEN [cat |-> "keyword", text |-> m.groups[4]]
    ELSE IF Truthy(m.groups[5]) THEN [cat |-> "type", text |-> m.groups[5]]
    ELSE IF Truthy(m.groups[6]) THEN [cat |-> "arg", text |-> m.groups[6]]
    ELSE Plain(FullMatch(s, m))

\* variant: the guard is missing, the rest is pushed even when it is empty
RemainingUnguarded(s, last) == <<Plain(Slice(s, last, Len(s)))>>
\* if (lastIndex < code.length) elements.push(code.slice(lastIndex))
Remaining(s, last) ==
    IF last < Len(s) THEN <<Plain(Slice(s, last, Len(s)))>> ELSE <<>>

----------------------------------------------------------------------------
(* The lines the tokenizer is called on. *)

\* the offset of the first sep at or after offset start, or the length of text
NextSep(text, sep, start) ==
    CHOOSE q \in start..Len(text) :
        /\ q = Len(text) \/ Char(text, q) = sep
        /\ \A r \in start..(q - 1) : Char(text, r) # sep

\* text.split(sep): the pieces from offset start on
RECURSIVE SplitFrom(_, _, _)
SplitFrom(text, sep, start) ==
    IF NextSep(text, sep, start) = Len(text)
    THEN <<Slice(text, start, Len(text))>>
    ELSE <<Slice(text, start, NextSep(text, sep, start))>>
         \o SplitFrom(text, sep, NextSep(text, sep, start) + 1)

\* codeSnippet.split('\n')
Split(text, sep) == SplitFrom(text, sep, 0)

Range(f) == {f[i] : i \in DOMAIN f}

\* the lines of a snippet, in order
SnippetLineSeq(name) == Split(SNIPPETS[name], "\n")

\* <line, the line mapped next>: consecutive lines of a snippet, and the last
\* line of a snippet with the first line of the snippet rendered next
RenderPairs ==
    UNION {{<<SnippetLineSeq(name)[i], SnippetLineSeq(name)[i + 1]>> :
                i \in 1..(Len(SnippetLineSeq(name)) - 1)} : name \in FileNames}
    \cup {<<SnippetLineSeq(n)[Len(SnippetLineSeq(n))], SnippetLineSeq(m)[1]>> :
                n \in FileNames, m \in FileNames}

\* the lines HighlightedCode may be called on after its call on line; a line of
\* no snippet has none
NextLines(line) == {p[2] : p \in {q \in RenderPairs : q[1] = line}}

\* no line: a line holds no newline
NoLine == <<"\n">>

\* the lines the page renders: every line of every snippet
SnippetLines == UNION {Range(Split(SNIPPETS[name], "\n")) : name \in FileNames}

Alphabet == {"/", Quote, Backslash, "@", ":", " ", "\r", "A", "i", "f"}

BoundedLines == UNION {[1..n -> Alphabet] : n \in 0..MaxLen}

\* lines the exhaustive set is too short for
SampleLines ==
    {
       <<"\"", "h", "e", "l", "l", "o", "\"">>,
       <<"f", "u", "n", "c">>,
       <<"f", "u", "n", "c", "t", "i", "o", "n">>,
       <<"B", "u", "n", "d", "l", "e">>,
       <<"i", "c", "o", "n", ":">>,
       <<"d", "e", "f", "a", "u", "l", "t", ":">>,
       <<"C", "o", "n", "t", "e", "n", "t", ":">>,
       <<"@", "S", "t", "a", "t", "e">>,
       <<"@", "m", "a", "i", "n">>,
       <<"T">>,
       <<"\"", "\"", "\"">>,
       <<"\"", "\"", "\"", "a", "b", "c", "\"", "\"", "\"">>,
       <<"x", " ", "/", "/", " ", "\"", "h", "i", "\"">>,
       <<"\"", "a", "/", "/", "b", "\"", " ", "/", "/", " ", "c">>,
       <<"l", "e", "t", " ", "s", " ", "=", " ", "\"", "a", "\\", "\"", "b", "\"">>,
       <<"l", "e", "t", " ", "u", "r", "l", " ", "=", " ", "\"", "h", "t", "t", "p", ":", "/", "/", "x", "\"", " ", "/", "/", " ", "n", "o", "t", "e">>,
       <<"c", "a", "s", "e", " ", "T", ":", " ", "r", "e", "t", "u", "r", "n", " ", "x", "_", "1">>,
       <<"f", "u", "n", "c", " ", "f", "u", "n", "c", "t", "i", "o", "n", "(", "i", "f", "x", ":", " ", "T", ")">>,
       <<"/", "/", " ", "i", "m", "p", "o", "r", "t", " ", "D", "e", "b", "u", "g", "K", "i", "t">>,
       <<"\"", "s", "t", "a", "t", "i", "c", " ", "V", "i", "e", "w", "\"", " ", "@", "i", "n", "i", "t">>,
       <<"f", "(", "T", "i", "t", "l", "e", ":", " ", "1", ",", " ", "i", "c", "o", "n", ":", " ", "2", ",", " ", "d", "e", "f", "a", "u", "l", "t", ":", " ", "3", ")">>,
       <<"@", "P", "u", "b", "l", "i", "s", "h", "e", "d", " ", "@", "p", "r", "i", "v", "a", "t", "e", " ", "v", "a", "r", " ", "n">>
    }

Lines == SnippetLines \cup SampleLines \cup BoundedLines

\* the lines the calls are followed to their end on
LiveLines ==
    SnippetLines \cup SampleLines \cup UNION {[1..n -> Alphabet] : n \in 0..MaxLiveLen}

----------------------------------------------------------------------------
(* HighlightedCode({ code }), one call after another. *)

\* variant: the regex is left where the earlier call's line ended and the call
\* does not reset it
CallResumesRegex ==
    /\ pc = "idle"
    /\ UNCHANGED code
    /\ elements' = <<>>
    /\ lastIndex' = 0
    /\ reLastIndex' = IF prevCode = NoLine THEN 0 ELSE Len(prevCode)
    /\ match' = NoMatch
    /\ pc' = "loop"
    /\ UNCHANGED prevCode
    /\ UNCHANGED browserVars
\* <HighlightedCode code={line} />: the call begins with elements = [],
\* lastIndex = 0 and TOKENIZER_REGEX.lastIndex = 0
Call ==
    /\ pc = "idle"
    /\ UNCHANGED code
    /\ elements' = <<>>
    /\ lastIndex' = 0
    /\ reLastIndex' = 0
    /\ match' = NoMatch
    /\ pc' = "loop"
    /\ UNCHANGED prevCode
    /\ UNCHANGED browserVars

\* one turn of the while loop: exec finds a match, the plain text before it and
\* the match are pushed, lastIndex takes the regex's lastIndex
LoopMatch ==
    /\ pc = "loop"
    /\ Exec(code, reLastIndex) # NoMatch
    /\ match' = Exec(code, reLastIndex)
    /\ reLastIndex' = match'.end
    /\ elements' = elements \o PlainBefore(code, lastIndex, match'.index)
                            \o <<Classify(code, match')>>
    /\ lastIndex' = reLastIndex'
    /\ pc' = "loop"
    /\ UNCHANGED code
    /\ UNCHANGED prevCode
    /\ UNCHANGED browserVars

\* exec returns null (and sets the regex's lastIndex to 0): the loop ends
LoopExit ==
    /\ pc = "loop"
    /\ Exec(code, reLastIndex) = NoMatch
    /\ match' = NoMatch
    /\ reLastIndex' = 0
    /\ pc' = "rest"
    /\ UNCHANGED <<code, elements, lastIndex>>
    /\ UNCHANGED prevCode
    /\ UNCHANGED browserVars

\* the remaining text is pushed and the call returns its elements
PushRemaining ==
    /\ pc = "rest"
    /\ elements' = elements \o Remaining(code, lastIndex)
    /\ pc' = "done"
    /\ UNCHANGED <<code, lastIndex, reLastIndex, match>>
    /\ UNCHANGED prevCode
    /\ UNCHANGED browserVars

\* the call has returned <>{elements}</>: its locals are gone, the module-level
\* regex stays as the call left it; the map goes on to the next line
Return ==
    /\ pc = "done"
    /\ code' \in NextLines(code)
    /\ prevCode' = code
    /\ elements' = <<>>
    /\ lastIndex' = 0
    /\ match' = NoMatch
    /\ pc' = "idle"
    /\ UNCHANGED reLastIndex
    /\ UNCHANGED browserVars

----------------------------------------------------------------------------
(* The specifications. *)

\* variant: another snippet is the default
BrowserInitOtherFile ==
    /\ activeFile = "Overlay.swift"
    /\ copied = FALSE
    /\ codeSnippet = Render("Overlay.swift")
    /\ timers = <<>>
    /\ now = 0
    /\ clipboard = NoText
    /\ written = NoText
    /\ lastCopyAt = NoCopy
    /\ interacted = FALSE
    /\ lastEvent = [type |-> "init", arg |-> ""]
\* useState<FileName>('App.swift'), useState(false), nothing scheduled or written
BrowserInit ==
    /\ activeFile = DefaultFile
    /\ copied = FALSE
    /\ codeSnippet = Render(DefaultFile)
    /\ timers = <<>>
    /\ now = 0
    /\ clipboard = NoText
    /\ written = NoText
    /\ lastCopyAt = NoCopy
    /\ interacted = FALSE
    /\ lastEvent = [type |-> "init", arg |-> ""]

\* the tokenizer before a call, given the line as its prop
TokenizerInit(line) ==
    /\ code = line
    /\ elements = <<>>
    /\ lastIndex = 0
    /\ reLastIndex = 0
    /\ match = NoMatch
    /\ pc = "idle"
    /\ prevCode = NoLine

\* the page as mounted; no tokenizer call is in progress
Init == BrowserInit /\ TokenizerInit(<<>>)

Next ==
    \/ \E name \in FileNames : SelectFile(name)
    \/ \E outcome \in WriteOutcomes : CopyToClipboard(outcome)
    \/ TimerFire
    \/ Tick

Spec == Init /\ [][Next]_vars

\* the event loop runs a timer's callback once it is due, and time goes on
FairSpec == Spec /\ WF_vars(TimerFire) /\ WF_vars(Tick)

TokNext ==
    \/ Call
    \/ LoopMatch
    \/ LoopExit
    \/ PushRemaining
    \/ Return

\* the tokenizer given any line of Lines
TokInit == BrowserInit /\ \E line \in Lines : TokenizerInit(line)

TokSpec == TokInit /\ [][TokNext]_vars

\* the tokenizer given any line of LiveLines
TokLiveInit == BrowserInit /\ \E line \in LiveLines : TokenizerInit(line)

\* a call that has begun runs on: JavaScript runs the function to its return
TokFairSpec ==
    /\ TokLiveInit
    /\ [][TokNext]_vars
    /\ WF_vars(LoopMatch) /\ WF_vars(LoopExit) /\ WF_vars(PushRemaining)

----------------------------------------------------------------------------
(* Fragments by offset: where each pushed element lies in the line. *)

RECURSIVE TextLen(_)
TextLen(es) == IF es = <<>> THEN 0 ELSE Len(Head(es).text) + TextLen(Tail(es))

RECURSIVE ConcatTexts(_)
ConcatTexts(es) == IF es = <<>> THEN <<>> ELSE Head(es).text \o ConcatTexts(Tail(es))

ElemStart(k) == TextLen(SubSeq(elements, 1, k - 1))
ElemEnd(k) == ElemStart(k) + Len(elements[k].text)

\* some element of category cat occupies exactly the offsets [a, b)
FragmentAt(cat, a, b) ==
    \E k \in 1..Len(elements) :
        elements[k].cat = cat /\ ElemStart(k) = a /\ ElemEnd(k) = b

\* offset p lies in an element of category cat that begins before p
InsideEarlier(cat, p) ==
    \E k \in 1..Len(elements) :
        elements[k].cat = cat /\ ElemStart(k) < p /\ p < ElemEnd(k)

SlashSlashAt(p) == StartsWith(code, p, <<"/", "/">>)

NoLineTerminator == \A i \in 1..Len(code) : ~IsLineTerminator(code[i])

----------------------------------------------------------------------------
(* The tokenizer's output. *)

\* C1: the fragments emitted for a line, in emission order, are contiguous,
\* non-overlapping substrings of the line and their concatenation is the line:
\* during the loop they cover exactly the prefix before lastIndex, and when the
\* call is done they cover the whole line, each at the offset where the ones
\* before it end.
C1_FragmentsReconstructLine ==
    /\ pc \in {"loop", "rest"} => ConcatTexts(elements) = Slice(code, 0, lastIndex)
    /\ pc = "done" =>
        /\ ConcatTexts(elements) = code
        /\ \A k \in 1..Len(elements) :
              elements[k].text = Slice(code, ElemStart(k), ElemEnd(k))

C1_Witness ==
    /\ pc = "done"
    /\ Len(elements) >= 3
    /\ \E k \in 1..Len(elements) : elements[k].cat = "plain"
    /\ \E k \in 1..Len(elements) : elements[k].cat \notin {"plain", "comment"}
    /\ elements[Len(elements)].cat = "plain"

\* C9 as stated, on lines without line-terminator characters: for every // of
\* the line, everything from it to the end of the line lies in one fragment
\* tagged comment.
C9_CommentFromEverySlashSlash ==
    (pc = "done" /\ NoLineTerminator) =>
        \A p \in 0..(Len(code) - 2) :
            SlashSlashAt(p) =>
                \E k \in 1..Len(elements) :
                    /\ elements[k].cat = "comment"
                    /\ ElemStart(k) <= p
                    /\ ElemEnd(k) = Len(code)

\* C9, amended: every // of a line lies either inside a string-literal fragment
\* that begins before it, or inside a comment fragment that begins at a // and
\* runs to the end of the line, or up to the line-terminator character that
\* follows it when the line holds one.
C9_CommentOrInsideString ==
    pc = "done" =>
        \A p \in 0..(Len(code) - 2) :
            SlashSlashAt(p) =>
                \/ InsideEarlier("string", p) /\ InsideEarlier("string", p + 1)
                \/ \E k \in 1..Len(elements) :
                      /\ elements[k].cat = "comment"
                      /\ SlashSlashAt(ElemStart(k))
                      /\ ElemStart(k) <= p
                      /\ p + 2 <= ElemEnd(k)
                      /\ \A i \in ElemStart(k)..(ElemEnd(k) - 1) :
                            ~IsLineTerminator(Char(code, i))
                      /\ \/ ElemEnd(k) = Len(code)
                         \/ IsLineTerminator(Char(code, ElemEnd(k)))

C9_Witness ==
    /\ pc = "done"
    /\ \E p \in 0..(Len(code) - 2) : SlashSlashAt(p) /\ InsideEarlier("string", p)
    /\ \E k \in 1..Len(elements) :
          /\ elements[k].cat = "comment"
          /\ ElemStart(k) > 0
          /\ ElemEnd(k) = Len(code)
          /\ Len(elements[k].text) > 2

\* the character at offset i is backslash-escaped in a literal opened at offset p
RECURSIVE Escaped(_, _)
Escaped(p, i) ==
    IF i <= p + 1 THEN FALSE
    ELSE Char(code, i - 1) = Backslash /\ ~Escaped(p, i - 1)

\* the quote at offset q closes the literal opened by the quote at offset p: every
\* quote between them is backslash-escaped and the one at q is not
ClosesLiteral(p, q) ==
    /\ p < q /\ q < Len(code)
    /\ Char(code, p) = Quote /\ Char(code, q) = Quote
    /\ ~Escaped(p, q)
    /\ \A i \in (p + 1)..(q - 1) : Char(code, i) = Quote => Escaped(p, i)

\* """ at offset p and again at offset r, the first one after it
TripleClosedAt(p, r) ==
    /\ StartsWith(code, p, TripleQuote)
    /\ r >= p + 3
    /\ StartsWith(code, r, TripleQuote)
    /\ \A x \in (p + 3)..(r - 1) : ~StartsWith(code, x, TripleQuote)

\* C10 as stated, for the line's first quote character on lines without
\* line-terminator characters and without a triple quote: a complete
\* double-quoted literal is emitted, quotes included, as one fragment tagged
\* string.
C10_LiteralIsOneStringFragment ==
    (pc = "done" /\ NoLineTerminator) =>
        \A p \in 0..(Len(code) - 1) : \A q \in 0..(Len(code) - 1) :
            ( /\ ClosesLiteral(p, q)
              /\ \A i \in 0..(p - 1) : Char(code, i) # Quote
              /\ ~StartsWith(code, p, TripleQuote) )
            => FragmentAt("string", p, q + 1)

\* C10, amended: a double-quoted literal whose opening quote lies neither in a
\* comment fragment nor in a string fragment begun before it, and in whose body no
\* backslash is followed by a line-terminator character, is emitted as one
\* fragment tagged string, from the opening quote through the first quote after
\* it that is not backslash-escaped; when the opening quote begins """ and
\* another """ follows on the line, the fragment is the triple-quoted literal,
\* through that closing """.
C10_ReachedLiteralIsOneStringFragment ==
    pc = "done" =>
        \A p \in 0..(Len(code) - 1) : \A q \in 0..(Len(code) - 1) :
            ( /\ ClosesLiteral(p, q)
              /\ ~InsideEarlier("comment", p)
              /\ ~InsideEarlier("string", p)
              /\ \A i \in (p + 1)..(q - 1) :
                    Escaped(p, i) => ~IsLineTerminator(Char(code, i)) )
            => IF \E r \in 0..Len(code) : TripleClosedAt(p, r)
               THEN \E r \in 0..Len(code) :
                        TripleClosedAt(p, r) /\ FragmentAt("string", p, r + 3)
               ELSE FragmentAt("string", p, q + 1)

C10_Witness ==
    /\ pc = "done"
    /\ \E p \in 0..(Len(code) - 1) : \E q \in 0..(Len(code) - 1) :
          /\ ClosesLiteral(p, q)
          /\ \E i \in (p + 1)..(q - 1) : Char(code, i) = Quote
          /\ FragmentAt("string", p, q + 1)
    /\ \E k \in 1..Len(elements) : elements[k].cat = "keyword"

----------------------------------------------------------------------------
(* The browser. *)

\* C2 as stated: after a copy the flag stays true until 2000 ms after the most
\* recent copy; an earlier copy's timer does not reset it before then.
C2_FlagHeldUntilLatestCopyExpires ==
    (lastCopyAt # NoCopy /\ now < lastCopyAt + 2000) => copied

\* C3: right after a copy, the text handed to the clipboard write is the stored
\* text of the snippet that is active, whatever was selected or copied before,
\* and when the write succeeds the clipboard holds exactly that text.
C3_CopyWritesActiveSnippet ==
    lastEvent.type = "copy" =>
        /\ written = SNIPPETS[activeFile]
        /\ lastEvent.arg = "ok" => clipboard = SNIPPETS[activeFile]

C3_Witness ==
    /\ lastEvent = [type |-> "copy", arg |-> "ok"]
    /\ activeFile = "Overlay.swift"
    /\ clipboard = Text_Overlay
    /\ Len(timers) = 2

\* C4: right after a copy the flag is true; once 2000 ms have passed since the
\* most recent copy its timer has run and the flag is false; and while a single
\* timer is pending the flag is not reset before 2000 ms have passed since that
\* copy.
C4_FlagTrueThenFalseAfterDelay ==
    /\ [](lastEvent.type = "copy" => copied)
    /\ []((lastCopyAt # NoCopy /\ now > lastCopyAt + 2000) => (timers = <<>> /\ ~copied))
    /\ []((lastCopyAt # NoCopy /\ now >= lastCopyAt + 2000 /\ timers = <<>>) => ~copied)
    /\ [][(copied /\ ~copied' /\ Len(timers) = 1) => now >= lastCopyAt + 2000]_vars

C4_Witness ==
    /\ lastEvent.type = "timer"
    /\ now = lastCopyAt + 2000
    /\ timers = <<>>
    /\ ~copied

\* C5: whenever the flag is true a copy happened within the preceding 2000 ms,
\* so it is false before the first copy and never true later than 2000 ms after
\* the most recent one.
C5_FlagTrueOnlyWithinDelay ==
    copied => (lastCopyAt # NoCopy /\ now - lastCopyAt <= 2000)

C5_Witness ==
    /\ copied
    /\ now = lastCopyAt + 2000
    /\ lastEvent.type = "tick"

\* C6: before any select or copy the active snippet is App.swift, the flag is
\* false and no reset timer is pending.
C6_InitialState ==
    ~interacted =>
        /\ activeFile = "App.swift"
        /\ copied = FALSE
        /\ timers = <<>>

C6_Witness ==
    /\ ~interacted
    /\ activeFile = "App.swift"
    /\ now >= 1000

\* C7: the active snippet is always one name of the fixed set and the body shown
\* is the table's text for it; the active name changes only in a select step,
\* and after a select of name N the active name is N.
C7_SelectionState ==
    /\ [](activeFile \in {"App.swift", "Overlay.swift", "Sections.swift", "Actions.swift"})
    /\ [](codeSnippet = SNIPPETS[activeFile])
    /\ [][ /\ activeFile' # activeFile => lastEvent'.type = "select"
           /\ lastEvent'.type = "select" => activeFile' = lastEvent'.arg ]_vars

C7_Witness ==
    /\ lastEvent = [type |-> "select", arg |-> "Sections.swift"]
    /\ activeFile = "Sections.swift"
    /\ codeSnippet = Text_Sections
    /\ clipboard = Text_Actions

\* C8: a select step taken while the flag is true leaves the flag true and the
\* pending timers, with their due times, as they were.
C8_SelectLeavesFeedback ==
    [][(lastEvent'.type = "select" /\ copied) => (copied' /\ timers' = timers)]_vars

C8_Witness ==
    /\ lastEvent.type = "select"
    /\ copied
    /\ timers # <<>>
    /\ clipboard # NoText
    /\ clipboard # SNIPPETS[activeFile]

----------------------------------------------------------------------------
(* Words of the line. *)

\* the offsets [a, b) are a whole word: a maximal run of word characters
WordRun(a, b) ==
    /\ 0 <= a /\ a < b /\ b <= Len(code)
    /\ \A i \in a..(b - 1) : IsWordChar(Char(code, i))
    /\ a = 0 \/ ~IsWordChar(Char(code, a - 1))
    /\ b = Len(code) \/ ~IsWordChar(Char(code, b))

IsKeyword(t) == \E k \in 1..Len(Keywords) : Keywords[k] = t

Offsets == 0..Len(code)

\* C11 as stated: every whole word of the line that is a reserved word is a
\* fragment tagged keyword, and every fragment tagged keyword is a whole word.
C11_StandaloneKeywordIsKeyword ==
    pc = "done" =>
        /\ \A a \in Offsets : \A b \in Offsets :
              (WordRun(a, b) /\ IsKeyword(Slice(code, a, b)))
                  => FragmentAt("keyword", a, b)
        /\ \A k \in 1..Len(elements) :
              elements[k].cat = "keyword" => WordRun(ElemStart(k), ElemEnd(k))

\* C11, amended: a whole word that is a reserved word is a fragment tagged
\* keyword unless it lies inside a comment fragment or a string fragment or
\* follows an @ as part of an annotation fragment; and every fragment tagged
\* keyword is a whole word that is a reserved word, never a part of a longer
\* word.
C11_KeywordOutsideCommentStringAnnotation ==
    pc = "done" =>
        /\ \A a \in Offsets : \A b \in Offsets :
              ( /\ WordRun(a, b)
                /\ IsKeyword(Slice(code, a, b))
                /\ ~InsideEarlier("comment", a)
                /\ ~InsideEarlier("string", a)
                /\ ~InsideEarlier("decorator", a) )
              => FragmentAt("keyword", a, b)
        /\ \A k \in 1..Len(elements) :
              elements[k].cat = "keyword" =>
                  /\ WordRun(ElemStart(k), ElemEnd(k))
                  /\ IsKeyword(elements[k].text)

C11_Witness ==
    /\ pc = "done"
    /\ \E k \in 1..Len(elements) : elements[k].cat = "keyword"
    /\ \E a \in Offsets : \E b \in Offsets : \E c \in Offsets :
          /\ WordRun(a, c)
          /\ a < b /\ b < c
          /\ IsKeyword(Slice(code, a, b))
          /\ ~InsideEarlier("comment", a)
          /\ \A k \in 1..Len(elements) :
                ElemStart(k) = a => elements[k].cat # "keyword"

\* the offset a lies in no comment, string or annotation fragment begun before it
OutsideEarlierFragments(a) ==
    /\ ~InsideEarlier("comment", a)
    /\ ~InsideEarlier("string", a)
    /\ ~InsideEarlier("decorator", a)

\* C12 as stated, for the words outside comment, string and annotation
\* fragments: every whole word that begins with an uppercase letter, of any
\* length, is one fragment tagged type (the capitalized identifier).
C12_CapitalizedWordIsType ==
    pc = "done" =>
        \A a \in Offsets : \A b \in Offsets :
            ( /\ WordRun(a, b)
              /\ IsUpper(Char(code, a))
              /\ OutsideEarlierFragments(a) )
            => FragmentAt("type", a, b)

\* the whole word at [a, b) is immediately followed by a colon
WordBeforeColon(a, b) ==
    /\ WordRun(a, b)
    /\ b < Len(code)
    /\ Char(code, b) = ":"

\* C13 as stated, for the words outside comment, string and annotation
\* fragments: every whole word immediately followed by a colon is, together with
\* the colon, one fragment tagged arg (the labeled argument).
C13_WordBeforeColonIsArg ==
    pc = "done" =>
        \A a \in Offsets : \A b \in Offsets :
            (WordBeforeColon(a, b) /\ OutsideEarlierFragments(a))
                => FragmentAt("arg", a, b + 1)

\* C13, amended: a whole word immediately followed by a colon is, together with
\* the colon, one fragment tagged arg when it lies outside comment, string and
\* annotation fragments and is neither a reserved word nor a word of two or more
\* characters beginning with an uppercase letter; those are tagged keyword or
\* type without the colon.
C13_PlainWordBeforeColonIsArg ==
    pc = "done" =>
        \A a \in Offsets : \A b \in Offsets :
            ( /\ WordBeforeColon(a, b)
              /\ OutsideEarlierFragments(a)
              /\ ~IsKeyword(Slice(code, a, b))
              /\ ~(IsUpper(Char(code, a)) /\ b - a >= 2) )
            => FragmentAt("arg", a, b + 1)

C13_Witness ==
    /\ pc = "done"
    /\ \E a \in Offsets : \E b \in Offsets :
          /\ WordBeforeColon(a, b)
          /\ b - a >= 2
          /\ FragmentAt("arg", a, b + 1)
    /\ \E a \in Offsets : \E b \in Offsets :
          /\ WordBeforeColon(a, b)
          /\ FragmentAt("type", a, b)

\* an @ at offset a followed by the whole word [a + 1, b)
AtWord(a, b) ==
    /\ a + 1 < b
    /\ Char(code, a) = "@"
    /\ WordRun(a + 1, b)

\* C14 as stated: every @ followed by one or more word characters is, with the
\* whole word after it, one fragment tagged decorator (the annotation).
C14_AtWordIsDecorator ==
    pc = "done" =>
        \A a \in Offsets : \A b \in Offsets :
            AtWord(a, b) => FragmentAt("decorator", a, b)

\* C14, amended: an @ followed by one or more word characters, lying outside
\* comment and string fragments, is with the whole word after it one fragment
\* tagged decorator, also when the word begins with an uppercase letter or is a
\* reserved word; no fragment tagged keyword or type begins right after that @.
C14_AtWordOutsideCommentStringIsDecorator ==
    pc = "done" =>
        \A a \in Offsets : \A b \in Offsets :
            ( /\ AtWord(a, b)
              /\ ~InsideEarlier("comment", a)
              /\ ~InsideEarlier("string", a) )
            => /\ FragmentAt("decorator", a, b)
               /\ \A k \in 1..Len(elements) :
                     ElemStart(k) = a + 1 => elements[k].cat \notin {"keyword", "type"}

C14_Witness ==
    /\ pc = "done"
    /\ \E a \in Offsets : \E b \in Offsets :
          AtWord(a, b) /\ IsUpper(Char(code, a + 1)) /\ FragmentAt("decorator", a, b)
    /\ \E a \in Offsets : \E b \in Offsets :
          AtWord(a, b) /\ IsKeyword(Slice(code, a + 1, b)) /\ FragmentAt("decorator", a, b)

\* C15: the call on the empty line pushes nothing, at any point of the call,
\* and returns zero fragments: no tagged fragment and no empty plain text.
C15_EmptyLineNoFragments ==
    code = <<>> => (elements = <<>> /\ (pc = "loop" => Exec(code, reLastIndex) = NoMatch))

C15_Witness ==
    /\ pc = "done"
    /\ code = <<>>
    /\ elements = <<>>
    /\ lastEvent.type = "init"

----------------------------------------------------------------------------
(* The browser, continued. *)

----------------------------------------------------------------------------
(* The tokenizer, continued. *)

\* the categories in the order the pattern lists them
CatOrder == <<"comment", "string", "decorator", "keyword", "type", "arg">>

\* where category number i alone would end a match begun at offset p of the line
CatEnd(i, p) ==
    CASE i = 1 -> CommentEnd(code, p)
      [] i = 2 -> StringEnd(code, p)
      [] i = 3 -> DecoratorEnd(code, p)
      [] i = 4 -> KeywordEnd(code, p)
      [] i = 5 -> TypeEnd(code, p)
      [] i = 6 -> ArgEnd(code, p)

SomeCategoryMatchesAt(p) == \E i \in 1..6 : CatEnd(i, p) # Fail

\* C17: a plain fragment covers only offsets at which no category matches, so
\* every tagged fragment begins at the earliest offset from the scan position
\* at which some category matches; its category is the first listed one that
\* matches there and its text is that category's match, whatever a later one
\* would match. The lines `default:` and `Content:` give a keyword and a type
\* followed by plain `:`.
C17_LeftmostFirstOrderedAlternatives ==
    /\ \A k \in 1..Len(elements) :
          IF elements[k].cat = "plain"
          THEN \A p \in ElemStart(k)..(ElemEnd(k) - 1) : ~SomeCategoryMatchesAt(p)
          ELSE \E i \in 1..6 :
                  /\ CatOrder[i] = elements[k].cat
                  /\ CatEnd(i, ElemStart(k)) = ElemEnd(k)
                  /\ \A j \in 1..(i - 1) : CatEnd(j, ElemStart(k)) = Fail
    /\ (pc = "done" /\ code = <<"d", "e", "f", "a", "u", "l", "t", ":">>) =>
          elements = << [cat |-> "keyword", text |-> <<"d", "e", "f", "a", "u", "l", "t">>],
                        Plain(<<":">>) >>
    /\ (pc = "done" /\ code = <<"C", "o", "n", "t", "e", "n", "t", ":">>) =>
          elements = << [cat |-> "type", text |-> <<"C", "o", "n", "t", "e", "n", "t">>],
                        Plain(<<":">>) >>

\* a finished line on which a keyword and a type each won over a longer
\* labeled-argument match at the same offset, after skipped plain text
C17_Witness ==
    /\ pc = "done"
    /\ \E k \in 2..Len(elements) :
          /\ elements[k].cat = "keyword"
          /\ elements[k - 1].cat = "plain"
          /\ CatEnd(6, ElemStart(k)) > ElemEnd(k)
    /\ \E k \in 1..Len(elements) :
          /\ elements[k].cat = "type"
          /\ CatEnd(6, ElemStart(k)) > ElemEnd(k)

----------------------------------------------------------------------------
(* The browser: the reset timers drain. *)

\* C18: whenever the flag is true or a reset timer is pending, eventually every
\* timer has run and the flag is false; the flag turns true only by a copy, so
\* it then stays false until the next copy; a timer's callback, stale or not,
\* leaves the flag false.
C18_TimersDrainAndFlagSettlesFalse ==
    /\ (copied \/ timers # <<>>) ~> (~copied /\ timers = <<>>)
    /\ [][ (~copied /\ copied') => lastEvent'.type = "copy" ]_vars
    /\ [][ (timers # <<>> /\ timers' = Tail(timers)) => ~copied' ]_vars

\* the stale timer of an earlier copy has just run while the timer of a later
\* copy is still pending
C18_Witness ==
    /\ lastEvent.type = "timer"
    /\ Len(timers) = 1
    /\ ~copied
    /\ now < lastCopyAt + 2000
    /\ Head(timers) = lastCopyAt + 2000

----------------------------------------------------------------------------
(* The tokenizer: one line at a time. *)

\* the fragments of line s from scan offset from on, with last the end of the
\* latest match: a function of the line's text and of nothing else
RECURSIVE FragmentsFrom(_, _, _)
FragmentsFrom(s, from, last) ==
    IF Exec(s, from) = NoMatch THEN Remaining(s, last)
    ELSE PlainBefore(s, last, Exec(s, from).index)
         \o <<Classify(s, Exec(s, from))>>
         \o FragmentsFrom(s, Exec(s, from).end, Exec(s, from).end)

Fragments(s) == FragmentsFrom(s, 0, 0)

HasQuote(s) == \E i \in 1..Len(s) : s[i] = Quote

\* the line that opens the multi-line string literal of a snippet
OpeningTripleQuoteLine == <<" ", " ", " ", " ", Quote, Quote, Quote>>

\* C19: whatever line the call before was on, the call returns the fragments
\* that the line's text alone determines; a line without a quote has no string
\* fragment even when the line before opens a triple-quoted literal; between
\* calls the shared regex's scan offset is 0.
C19_FragmentsDependOnLineAlone ==
    /\ pc = "done" => elements = Fragments(code)
    /\ ~HasQuote(code) => \A k \in 1..Len(elements) : elements[k].cat # "string"
    /\ pc \in {"idle", "rest", "done"} => reLastIndex = 0

\* the call on the line after the opening triple quote has returned: no string
\* fragment, and the fragments of the line alone
C19_Witness ==
    /\ pc = "done"
    /\ prevCode = OpeningTripleQuoteLine
    /\ code # prevCode
    /\ ~HasQuote(code)
    /\ Len(elements) > 1
    /\ elements = Fragments(code)

----------------------------------------------------------------------------
(* The tokenizer: the loop ends. *)

\* the number of turns of the loop so far: each turn pushes one tagged fragment
Iterations == Cardinality({k \in 1..Len(elements) : elements[k].cat # "plain"})

\* C20: every match holds at least one character, so each turn of the loop
\* moves the regex's scan offset strictly forward; the turns number at most the
\* offset, which is at most the length of the line; a call that is in its loop
\* leaves it and returns.
C20_LoopTerminates ==
    /\ [](/\ match # NoMatch => match.end > match.index
          /\ pc = "loop" => (Iterations <= reLastIndex /\ reLastIndex <= Len(code))
          /\ Iterations <= Len(code))
    /\ [][ (pc = "loop" /\ pc' = "loop") => reLastIndex' > reLastIndex ]_vars
    /\ (pc = "loop") ~> (pc = "done")

\* a call that took several turns of the loop has returned
C20_Witness ==
    /\ pc = "done"
    /\ Iterations >= 3
    /\ Iterations < Len(code)
    /\ \E k \in 1..Len(elements) : elements[k].cat = "plain"

----------------------------------------------------------------------------
(* The tokenizer: what a match becomes. *)

TaggedCategories == {"comment", "string", "decorator", "keyword", "type", "arg"}

\* the categories found among the fragments pushed so far
CategoriesSeen == {elements[k].cat : k \in 1..Len(elements)}

\* C21: the latest match has exactly one capture group set, holding the whole
\* match, and the fragment pushed for it carries that group's category and the
\* match's text, so the fall-through push of fullMatch is never taken; every
\* fragment, tagged or plain, has a category of the fixed set and is not empty.
C21_MatchTaggedOnceAndNonEmpty ==
    /\ \A k \in 1..Len(elements) :
          /\ elements[k].text # <<>>
          /\ elements[k].cat \in TaggedCategories \cup {"plain"}
    /\ match # NoMatch =>
          /\ Cardinality({g \in 1..6 : Truthy(match.groups[g])}) = 1
          /\ \A g \in 1..6 :
                match.groups[g] \in {Undefined, FullMatch(code, match)}
          /\ Classify(code, match).cat \in TaggedCategories
          /\ pc = "loop" =>
                /\ elements # <<>>
                /\ elements[Len(elements)] = Classify(code, match)
                /\ elements[Len(elements)].text = FullMatch(code, match)
                /\ \A g \in 1..6 :
                      Truthy(match.groups[g]) => elements[Len(elements)].cat = CatOrder[g]

\* a turn of the loop has just pushed a tagged fragment on a line that by now
\* gave plain text and fragments of three categories
C21_Witness ==
    /\ pc = "loop"
    /\ match # NoMatch
    /\ "plain" \in CategoriesSeen
    /\ Cardinality(CategoriesSeen \cap TaggedCategories) >= 3

----------------------------------------------------------------------------
(* The browser: what each action leaves alone. *)

\* C22: a copy leaves the active snippet (and the snippet shown) as it was; a
\* select leaves the clipboard, the flag and the pending timers as they were; a
\* timer's callback leaves the active snippet, the snippet shown and the
\* clipboard as they were and changes the flag alone.
C22_ActionsChangeOnlyOwnCells ==
    [][ /\ lastEvent'.type = "copy" =>
              (activeFile' = activeFile /\ codeSnippet' = codeSnippet)
        /\ lastEvent'.type = "select" =>
              /\ clipboard' = clipboard
              /\ written' = written
              /\ copied' = copied
              /\ timers' = timers
        /\ lastEvent'.type = "timer" =>
              /\ activeFile' = activeFile
              /\ codeSnippet' = codeSnippet
              /\ clipboard' = clipboard
              /\ written' = written ]_vars

\* after a copy of one snippet and a select of another, the first timer has
\* run: the clipboard still holds the snippet that is no longer active
C22_Witness ==
    /\ lastEvent.type = "timer"
    /\ activeFile = "Actions.swift"
    /\ codeSnippet = Text_Actions
    /\ clipboard = Text_App
    /\ ~copied

----------------------------------------------------------------------------
(* The tokenizer: a triple quote alone on its line. *)

IsBlank(c) == c \in {" ", "\t", "\r"}

\* the line holds three quotes in a row at offset a and blanks elsewhere
LoneTripleQuoteAt(a) ==
    /\ a + 3 <= Len(code)
    /\ StartsWith(code, a, TripleQuote)
    /\ \A i \in 0..(Len(code) - 1) : (i < a \/ i >= a + 3) => IsBlank(Char(code, i))

\* C23: on a line that holds a triple quote and blanks only, the call returns
\* the blanks before it (if any) as plain text, the first two quotes as a
\* string fragment with an empty body, and the third quote with the blanks
\* after it as plain text; no fragment is the three quotes.
C23_LoneTripleQuoteSplits ==
    \A a \in Offsets :
        (pc = "done" /\ LoneTripleQuoteAt(a)) =>
            /\ elements = PlainBefore(code, 0, a)
                          \o << [cat |-> "string", text |-> <<Quote, Quote>>],
                                Plain(Slice(code, a + 2, Len(code))) >>
            /\ ~FragmentAt("string", a, a + 3)

\* the call on the opening line of the snippet's multi-line literal has returned
C23_Witness ==
    /\ pc = "done"
    /\ code = OpeningTripleQuoteLine
    /\ LoneTripleQuoteAt(4)
    /\ Len(elements) = 3
    /\ elements[2] = [cat |-> "string", text |-> <<Quote, Quote>>]
    /\ elements[3] = Plain(<<Quote>>)

====
